---- MODULE Spec2Model ----
(***************************************************************************)
(* Task scheduling and progression of the quiz application: the tasks      *)
(* table of user_learning.db and the operations of TaskManager that read   *)
(* and write it (backend/task_manager.py), together with the two other     *)
(* writers of the same table: the Gradio front end's one-by-one assigner   *)
(* (backend/node_funcs.py) and the admin's user deletion (backend/api.py). *)
(*                                                                         *)
(* Dates are day numbers; day 0 is a Monday, so the weekday of a day d is  *)
(* d % 7 with 0 = Monday, as datetime.weekday() counts.                    *)
(***************************************************************************)
EXTENDS Integers, Sequences, FiniteSets, TLC

\* ------------------------------------------------------------------ bounds
MaxWeeks == 2       \* duration_weeks ranges over 1..MaxWeeks
MaxDay   == 1       \* the clock starts on one of the days 0..MaxDay and stops at MaxDay
MaxId    == 6       \* ids the AUTOINCREMENT counter may hand out
MaxOps   == 3       \* calls issued in one behaviour
MaxStart == 13      \* start days the date sequencer is run from: 0..MaxStart

\* --------------------------------------------------------------- constants
DueDays == 3        \* timedelta(days=3) between a task's date and its due date
MonThu  == 3        \* jump after an odd task number (Monday -> Thursday)
ThuMon  == 4        \* jump after an even task number (Thursday -> Monday)
WeekLen == 7        \* days in a week
MinDuration == 1    \* AssignTaskRequest.duration_weeks: Field(ge=1, ...)
MaxDuration == 52   \* AssignTaskRequest.duration_weeks: Field(..., le=52)

Learners == {"a@x", "b@x"}
Weeks    == 1..MaxWeeks
Procs    == {1, 2}
TimesOfDay == {1}               \* the time of day of a call: after midnight (0)

\* the content provider during one call: the number of generate_task requests
\* it answers before the service raises. Always: it answers every request of
\* the call (a working service, or no client configured: the template)
Always       == 2 * MaxWeeks
ProviderRuns == {0, 1, Always}

NoDate    == -1                 \* SQL NULL in submitted_date
NoContent == <<>>               \* SQL NULL in submission_content
NoText    == <<>>               \* previous_task = None
Texts     == {<<"text", "work">>}
Files     == {"f.py"}

\* the names learners give (as .strip() leaves them) and the roles a
\* register payload asks for; e-mail addresses are taken in lower case
Names == {"Ann", "Bob"}
Roles == {"user", "admin", "owner"}
AdminEmail == "admin@plp.local"
Emails == Learners \cup {AdminEmail}

\* an Authorization header: none, one that does not decode, or a token whose
\* "sub" is an account id
NoToken  == 0
BadToken == -1

\* the duration_weeks values a request carries: around both ends of the range
Durations == {MinDuration - 2, MinDuration - 1, MinDuration, MaxWeeks,
              MaxDuration, MaxDuration + 1}

VARIABLES
    tasks,      \* committed rows of the tasks table
    nextId,     \* next value of the AUTOINCREMENT id
    today,      \* the calendar day datetime.now() falls on
    ret,        \* the latest call that returned: its arguments and its outcome
    released,   \* per learner: number of the pending task the latest call submitted (0: none)
    locked,     \* an abandoned connection holds an uncommitted write transaction
    ops,        \* calls issued so far
    pc,         \* per request thread: position inside assign_task
    loc,        \* per request thread: the locals of its assign_task call
    cad,        \* the date sequencer run on its own: inputs and results
    auth_users, \* committed rows of the auth_users table: the accounts
    users,      \* committed rows of the users table: the quiz results
    sqlite_sequence \* next AUTOINCREMENT id of auth_users and of users

accounts == <<auth_users, users, sqlite_sequence>>

vars == <<tasks, nextId, today, ret, released, locked, ops, pc, loc, cad, accounts>>

\* ------------------------------------------------------------- date-times
\* datetime.now(): a calendar day and a time of day
Now(tod) == [day |-> today, tod |-> tod]

\* dt + timedelta(days=n)
AddDays(dt, n) == [day |-> dt.day + n, tod |-> dt.tod]

\* dt.weekday(): Monday is 0
Weekday(dt) == dt.day % WeekLen

\* dt.strftime("%Y-%m-%d"): the time of day is dropped
Strftime(dt) == dt.day

\* datetime.strptime(s, "%Y-%m-%d"): midnight of that day
Strptime(s) == [day |-> s, tod |-> 0]

\* --------------------------------------------------------- date sequencer
\* faulty variant: a start on a Monday is moved to the Monday after
NextScheduleDateAfter(cur, task_count) ==
    IF task_count % 2 = 0
    THEN LET d == (WeekLen - Weekday(cur)) % WeekLen
         IN  AddDays(cur, IF d > 0 THEN d ELSE WeekLen)
    ELSE AddDays(cur, MonThu)

\* one pass of the while loop of create_learning_schedule
NextScheduleDate(cur, task_count) ==
    IF task_count % 2 = 0
    THEN LET d == (WeekLen - Weekday(cur)) % WeekLen
             days_until_monday ==
                 IF d = 0 /\ task_count = 0 THEN 0
                 ELSE IF d > 0 THEN d ELSE WeekLen
         IN  AddDays(cur, days_until_monday)
    ELSE AddDays(cur, MonThu)

RECURSIVE DatesFrom(_, _, _)
DatesFrom(cur, task_count, total_tasks) ==
    IF task_count >= total_tasks THEN <<>>
    ELSE LET nxt == NextScheduleDate(cur, task_count)
         IN  <<nxt>> \o DatesFrom(nxt, task_count + 1, total_tasks)

\* task_dates of create_learning_schedule
ScheduleDates(start_date, total_tasks) == DatesFrom(start_date, 0, total_tasks)

\* faulty variant: the backfill advancing by 3 days every time
JumpAlwaysThree(tn) == MonThu

\* the alternating jump of the backfill: +3 after an odd number, +4 after an even one
Jump(tn) == IF tn % 2 = 1 THEN MonThu ELSE ThuMon

\* ------------------------------------------------------- content provider
\* generate_task: the text is opaque; what is kept is the number it was
\* written for and whether it quotes the previous task's text
GenerateTask(task_number, previous_task) ==
    [number |-> task_number,
     quotesPrevious |-> (task_number = 2 /\ previous_task # NoText)]

\* ------------------------------------------------------------------ store
\* INSERT INTO tasks (...) VALUES (..., status): submitted_date and
\* submission_content stay NULL
NewRow(id, e, tn, desc, ad, dd, st) ==
    [id |-> id, user_email |-> e, task_number |-> tn, task_description |-> desc,
     assigned_date |-> ad, due_date |-> dd, status |-> st,
     submitted_date |-> NoDate, submission_content |-> NoContent]

\* WHERE user_email = ?
RowsOf(store, e) == {r \in store : r.user_email = e}

\* WHERE user_email = ? AND task_number = ?
RowsAt(store, e, tn) == {r \in store : r.user_email = e /\ r.task_number = tn}

NumbersOf(store, e) == {r.task_number : r \in RowsOf(store, e)}

\* ORDER BY task_number DESC LIMIT 1: any row of the highest number
LastRows(store, e) ==
    {r \in RowsOf(store, e) : \A q \in RowsOf(store, e) : q.task_number <= r.task_number}

\* cursor.fetchone(): one of the rows the query yields, or None (the empty set)
FetchOne(rows) == IF rows = {} THEN {{}} ELSE {{r} : r \in rows}

\* ---------------------------------------------- create_learning_schedule
\* the for loop of create_learning_schedule from task_number on: one INSERT
\* per task, each description generated from the one before it
RECURSIVE ScheduleRows(_, _, _, _, _, _)
ScheduleRows(id, e, task_number, total_tasks, previous_task, task_dates) ==
    IF task_number > total_tasks THEN {}
    ELSE LET task_description == GenerateTask(task_number, previous_task)
             task_date == task_dates[task_number]
             due_date  == AddDays(task_date, DueDays)
         IN  {NewRow(id, e, task_number, task_description,
                     Strftime(task_date), Strftime(due_date), "scheduled")}
             \cup ScheduleRows(id + 1, e, task_number + 1, total_tasks,
                               task_description, task_dates)

\* faulty variant: the INSERT leaving status to the column's DEFAULT 'pending'
CreateLearningScheduleDefaultStatus(store, nid, e, total_tasks, start_date, answers) ==
    IF answers >= total_tasks
    THEN [created |-> TRUE,
          store |-> store \cup
              {[r EXCEPT !.status = "pending"] :
                  r \in ScheduleRows(nid, e, 1, total_tasks, NoText,
                                     ScheduleDates(start_date, total_tasks))},
          nid |-> nid + total_tasks, leak |-> FALSE]
    ELSE [created |-> FALSE, store |-> store, nid |-> nid, leak |-> answers >= 1]

\* faulty variant: conn.commit() after every INSERT
CreateLearningScheduleCommitEach(store, nid, e, total_tasks, start_date, answers) ==
    LET rows == ScheduleRows(nid, e, 1, total_tasks, NoText,
                             ScheduleDates(start_date, total_tasks))
    IN
    IF answers >= total_tasks
    THEN [created |-> TRUE, store |-> store \cup rows, nid |-> nid + total_tasks,
          leak |-> FALSE]
    ELSE [created |-> FALSE,
          store |-> store \cup {r \in rows : r.task_number <= answers},
          nid |-> nid + answers, leak |-> answers >= 1]

\* create_learning_schedule: all rows are inserted in one transaction of its
\* own connection, committed after the last INSERT. generate_task runs
\* before each INSERT; when it raises after `answers` rows, the exception is
\* caught and the call returns False with nothing committed. The connection
\* is neither rolled back nor closed: if it has inserted a row (leak), its
\* transaction stays open, holding the write lock, until it is collected.
CreateLearningSchedule(store, nid, e, total_tasks, start_date, answers) ==
    IF answers >= total_tasks
    THEN [created |-> TRUE,
          store |-> store \cup ScheduleRows(nid, e, 1, total_tasks, NoText,
                                            ScheduleDates(start_date, total_tasks)),
          nid |-> nid + total_tasks, leak |-> FALSE]
    ELSE [created |-> FALSE, store |-> store, nid |-> nid, leak |-> answers >= 1]

\* ------------------------------------------------------------ assign_task
\* the backfill loop of assign_task from tn on: rows inserted on the call's
\* own connection, which has not committed
RECURSIVE BackfillRows(_, _, _, _, _, _)
BackfillRows(id, e, tn, total_tasks, previous_task_text, next_date) ==
    IF tn > total_tasks THEN {}
    ELSE LET task_description == GenerateTask(tn, previous_task_text)
             due_date == AddDays(next_date, DueDays)
         IN  {NewRow(id, e, tn, task_description,
                     Strftime(next_date), Strftime(due_date), "scheduled")}
             \cup BackfillRows(id + 1, e, tn + 1, total_tasks, task_description,
                               AddDays(next_date, Jump(tn)))

\* faulty variant: the backfill starts at the number of the last stored row
BackfillInclusive(nid, e, total_tasks, last_row, prev) ==
    BackfillRows(nid, e, last_row.task_number, total_tasks,
                 prev.task_description,
                 AddDays(Strptime(last_row.assigned_date), Jump(last_row.task_number)))

\* the rows the backfill adds after last_row (prev: the row its description
\* is read from)
Backfill(nid, e, total_tasks, last_row, prev) ==
    BackfillRows(nid, e, last_row.task_number + 1, total_tasks,
                 prev.task_description,
                 AddDays(Strptime(last_row.assigned_date), Jump(last_row.task_number)))

\* assign_task up to the backfill, given the row count it read first.
\* Yields every possible [rc, store, view, nid, leak, refused]: store is what
\* is committed, view what the call's connection sees (its uncommitted
\* inserts included), leak whether a failed step left a connection with
\* uncommitted inserts behind, refused whether generate_task raised. answers: the generate_task requests the content provider
\* answers; busy: another connection holds the write lock, so the first
\* INSERT ends in "database is locked".
ScheduleStep(store, nid, e, duration_weeks, task_count, now, answers, busy) ==
    LET total_tasks == duration_weeks * 2
        stays(rc) == [rc |-> rc, store |-> store, view |-> store, nid |-> nid,
                      leak |-> FALSE, refused |-> FALSE]
        \* generate_task raises before the INSERT that would find the lock
        raises(needed) == answers < needed /\ (answers = 0 \/ ~busy)
    IN
    IF task_count = 0
    THEN LET c == CreateLearningSchedule(store, nid, e, total_tasks, now,
                                         IF busy THEN 0 ELSE answers)
         IN  {[rc |-> IF c.created THEN "go" ELSE "schedule_failed",
               store |-> c.store, view |-> c.store, nid |-> c.nid, leak |-> c.leak,
               refused |-> raises(total_tasks)]}
    ELSE {IF row = {} THEN stays("go")
          ELSE LET last_row == CHOOSE r \in row : TRUE
                   prev == CHOOSE q \in RowsAt(store, e, last_row.task_number) : TRUE
               IN
               IF last_row.task_number < total_tasks
               THEN IF ~busy /\ answers >= total_tasks - last_row.task_number
                    THEN [rc |-> "go", store |-> store, nid |-> nid, leak |-> FALSE,
                          refused |-> FALSE,
                          view |-> store \cup Backfill(nid, e, total_tasks, last_row, prev)]
                    ELSE [stays("raised") EXCEPT
                              !.leak = ~busy /\ answers >= 1,
                              !.refused = raises(total_tasks - last_row.task_number)]
               ELSE stays("go")
          : row \in FetchOne(LastRows(store, e))}

\* faulty variant: the end of the schedule tested one task late
DecideOneLate(result, duration_weeks) ==
    IF result = {} THEN [rc |-> "go", task_number |-> 1]
    ELSE LET r == CHOOSE x \in result : TRUE IN
         IF r.status # "completed"
         THEN [rc |-> "prior_incomplete", task_number |-> r.task_number]
         ELSE IF r.task_number > duration_weeks * 2
              THEN [rc |-> "journey_complete", task_number |-> r.task_number + 1]
              ELSE [rc |-> "go", task_number |-> r.task_number + 1]

\* the check on the learner's highest-numbered row
Decide(result, duration_weeks) ==
    IF result = {} THEN [rc |-> "go", task_number |-> 1]
    ELSE LET r == CHOOSE x \in result : TRUE IN
         IF r.status # "completed"
         THEN [rc |-> "prior_incomplete", task_number |-> r.task_number]
         ELSE IF r.task_number + 1 > duration_weeks * 2
              THEN [rc |-> "journey_complete", task_number |-> r.task_number + 1]
              ELSE [rc |-> "go", task_number |-> r.task_number + 1]

\* UPDATE tasks SET assigned_date = ?, status = 'pending' WHERE user_email = ? AND task_number = ?
Release(view, e, task_number, now) ==
    {IF r.user_email = e /\ r.task_number = task_number
     THEN [r EXCEPT !.assigned_date = Strftime(now), !.status = "pending"]
     ELSE r : r \in view}

\* the release and the commit, from the view the connection sees: every
\* possible [rc, store, task_number, task_id]; a call that returns or raises
\* before conn.commit() leaves the committed store as it was
ReleaseStep(committed, view, e, task_number, now, busy) ==
    LET updated == Release(view, e, task_number, now) IN
    {IF busy \/ id = {} THEN [rc |-> "raised", store |-> committed, task_number |-> task_number, task_id |-> 0]
     ELSE [rc |-> "assigned", store |-> updated, task_number |-> task_number,
           task_id |-> (CHOOSE r \in id : TRUE).id]
     : id \in FetchOne(RowsAt(updated, e, task_number))}

\* SELECT task_description, due_date ... WHERE user_email = ? AND task_number = ?
FetchStep(committed, view, e, task_number, now, busy) ==
    IF RowsAt(view, e, task_number) = {}
    THEN {[rc |-> "not_found", store |-> committed, task_number |-> task_number, task_id |-> 0]}
    ELSE ReleaseStep(committed, view, e, task_number, now, busy)

\* assign_task from the check of the last row to its return
FinishStep(committed, view, e, duration_weeks, now, busy) ==
    UNION {LET d == Decide(result, duration_weeks) IN
           IF d.rc # "go"
           THEN {[rc |-> d.rc, store |-> committed, task_number |-> d.task_number, task_id |-> 0]}
           ELSE FetchStep(committed, view, e, d.task_number, now, busy)
           : result \in FetchOne(LastRows(view, e))}

\* ------------------------------------------------------- bookkeeping
\* leak: a step of the call that failed had inserted rows it never committed;
\* refused: generate_task raised during the call;
\* email_sent: what send_email returned to the call (FALSE when it was not run);
\* result: the dict an assign_task call that failed handed back;
\* inserted: the rows the backfill of the call inserted on its connection;
\* requester, auth, quiz: for a request on accounts, the account its token
\* named and the auth_users and users tables before it; asked: the role a
\* register payload asked for
\* ------------------------------------------------------------- accounts
NoUser == [id |-> 0, name |-> "", email |-> "", role |-> ""]

\* get_current_user / get_optional_user: the account the token names, None
\* (NoUser) when the header is missing or invalid or the account is gone
CurrentUser(auth, token) ==
    IF \E a \in auth : a.id = token
    THEN CHOOSE a \in auth : a.id = token
    ELSE NoUser

IsAdmin(user) == user # NoUser /\ user.role = "admin"

\* SELECT COUNT(*) FROM auth_users WHERE role='admin'
AdminCount(auth) == Cardinality({a \in auth : a.role = "admin"})

\* seed_admin: INSERT OR IGNORE of the default admin when no admin exists
SeedAdmin(auth, seq) ==
    IF AdminCount(auth) = 0 /\ ~(\E a \in auth : a.email = AdminEmail)
    THEN [auth |-> auth \cup {[id |-> seq.auth_users, name |-> "Admin",
                               email |-> AdminEmail, role |-> "admin"]},
          seq |-> [seq EXCEPT !.auth_users = @ + 1]]
    ELSE [auth |-> auth, seq |-> seq]

\* faulty variant: the role is the one the payload asks for, whoever asks
DesiredRoleAsAsked(requester, role, auth) ==
    IF AdminCount(auth) = 0 THEN "admin"
    ELSE IF role \in {"user", "admin"} THEN role ELSE "user"

\* register: the role the new account gets
DesiredRole(requester, role, auth) ==
    IF AdminCount(auth) = 0 THEN "admin"
    ELSE IF IsAdmin(requester)
         THEN IF role \in {"user", "admin"} THEN role ELSE "user"
         ELSE "user"

\* faulty variant: the check on the role of the account to delete is missing
DeleteCheckNoRole(user, user_email, auth) ==
    IF user = NoUser THEN "unauthorized"
    ELSE IF ~IsAdmin(user) THEN "forbidden"
    ELSE IF user_email = user.email THEN "own_account"
    ELSE IF ~(\E a \in auth : a.email = user_email) THEN "not_found"
    ELSE "go"

\* admin_delete_user: the checks before the first DELETE
DeleteCheck(user, user_email, auth) ==
    IF user = NoUser THEN "unauthorized"
    ELSE IF ~IsAdmin(user) THEN "forbidden"
    ELSE IF user_email = user.email THEN "own_account"
    ELSE IF ~(\E a \in auth : a.email = user_email) THEN "not_found"
    ELSE IF (CHOOSE a \in auth : a.email = user_email).role = "admin" THEN "is_admin"
    ELSE "go"

\* the tokens a request can carry: none, an invalid one, or one issued for an
\* account id (the account may have been deleted since)
Tokens == {NoToken, BadToken} \cup 1..(sqlite_sequence.auth_users - 1)

\* the tokens of the admin accounts
AdminTokens == {a.id : a \in {x \in auth_users : x.role = "admin"}}

\* a call that raised, or that is no assign_task call, hands back no dict
NoResult == [error |-> FALSE, message |-> <<>>]

\* faulty variant: every failure handed back as one generic value
AssignResultGeneric(rc, task_number) ==
    IF rc \in {"schedule_failed", "prior_incomplete", "journey_complete", "not_found"}
    THEN [error |-> TRUE, message |-> <<"Task assignment failed">>]
    ELSE NoResult

\* the dict assign_task returns: "error" and, for a failure, "message" (an
\* f-string, kept as its pieces)
AssignResult(rc, task_number) ==
    CASE rc = "schedule_failed" ->
           [error |-> TRUE, message |-> <<"Failed to create learning schedule.">>]
      [] rc = "prior_incomplete" ->
           [error |-> TRUE,
            message |-> <<"Task ", task_number, " must be completed before the next task can be assigned. Please submit your current task first.">>]
      [] rc = "journey_complete" ->
           [error |-> TRUE,
            message |-> <<"You have completed all tasks in your learning journey. Great job!">>]
      [] rc = "not_found" ->
           [error |-> TRUE, message |-> <<"Task ", task_number, " not found in schedule.">>]
      [] OTHER -> NoResult

NoCall == [op |-> "none", email |-> "", weeks |-> 0, rc |-> "", task_number |-> 0,
           task_id |-> 0, pre |-> {}, after |-> 0, leak |-> FALSE, refused |-> FALSE,
           email_sent |-> FALSE, result |-> NoResult, inserted |-> {},
           requester |-> NoUser, auth |-> {}, quiz |-> {}, asked |-> ""]

Returned(op, e, w, rc, tn, id, pre, after) ==
    [op |-> op, email |-> e, weeks |-> w, rc |-> rc, task_number |-> tn,
     task_id |-> id, pre |-> pre, after |-> after, leak |-> FALSE, refused |-> FALSE,
     email_sent |-> FALSE, result |-> NoResult, inserted |-> {},
     requester |-> NoUser, auth |-> {}, quiz |-> {}, asked |-> ""]

\* send_email: True, or False (no configuration, or SMTP failed); it runs only
\* in a call that has committed its change
SendEmail(rc) == IF rc \in {"assigned", "success"} THEN BOOLEAN ELSE {FALSE}

\* faulty variant: the change is kept only when the notification went out
CommittedIfSent(before, after, sent) == IF sent THEN after ELSE before

\* what the table holds when a call returns that changed it from `before` to
\* `after`: conn.commit() and conn.close() run before send_email, whose
\* result is only reported
Committed(before, after, sent) == after

NoLocals == [email |-> "", weeks |-> 0, task_count |-> 0, task_number |-> 0,
             pre |-> {}, after |-> 0]
NoCadence == [phase |-> "off", start |-> 0, weeks |-> 0, n |-> 0,
              scratch |-> {}, continued |-> {}]

AllIdle == \A p \in Procs : pc[p] = "idle"

\* ------------------------------------------------------------------ Init
\* setup_database and the startup hook seed_admin: the tables exist and are
\* empty, but for the default admin account
InitAccounts ==
    LET seeded == SeedAdmin({}, [auth_users |-> 1, users |-> 1]) IN
    /\ auth_users = seeded.auth
    /\ sqlite_sequence = seeded.seq
    /\ users = {}

\* the accounts once both learners have registered, each under a name of
\* their own, with no token: two register requests after the startup
InitRegistered ==
    LET seeded == SeedAdmin({}, [auth_users |-> 1, users |-> 1])
        first == seeded.seq.auth_users
    IN
    /\ auth_users = seeded.auth \cup
          {[id |-> first, name |-> "Ann", email |-> "a@x",
            role |-> DesiredRole(NoUser, "user", seeded.auth)],
           [id |-> first + 1, name |-> "Bob", email |-> "b@x",
            role |-> DesiredRole(NoUser, "user", seeded.auth)]}
    /\ sqlite_sequence = [seeded.seq EXCEPT !.auth_users = first + 2]
    /\ users = {}

InitStore ==
    /\ tasks = {}
    /\ nextId = 1
    /\ today \in 0..MaxDay
    /\ ret = NoCall
    /\ released = [e \in Learners |-> 0]
    /\ ops = 0
    /\ locked = FALSE
    /\ pc = [p \in Procs |-> "idle"]
    /\ loc = [p \in Procs |-> NoLocals]
    /\ cad = NoCadence

\* the server has started; nobody has registered yet
Init == InitAccounts /\ InitStore

\* the server has started and both learners hold an account
InitLearners == InitRegistered /\ InitStore

\* ------------------------------------------------------- whole calls
\* TaskManager.assign_task(user_name, e, level, roadmap, duration_weeks), run
\* from its first line to its return with no other call in between. A call
\* that returns or raises after its backfill has inserted rows never commits
\* or closes its connection: the transaction stays open, holding the write
\* lock, until the connection object is collected.
AssignTask(e, w, answers, tod) ==
    /\ ops < MaxOps
    /\ AllIdle
    /\ \E s \in ScheduleStep(tasks, nextId, e, w, Cardinality(RowsOf(tasks, e)),
                             Now(tod), answers, locked) :
         /\ s.nid <= MaxId + 1
         /\ \E r \in (IF s.rc = "go"
                      THEN FinishStep(s.store, s.view, e, w, Now(tod),
                                      locked /\ s.view = s.store)
                      ELSE {[rc |-> s.rc, store |-> s.store, task_number |-> 0, task_id |-> 0]}) :
              /\ nextId' = s.nid
              /\ locked' = (locked \/ s.leak \/ (s.view # s.store /\ r.rc # "assigned"))
              /\ \E sent \in SendEmail(r.rc) :
                   /\ tasks' = Committed(tasks, r.store, sent)
                   /\ ret' = [Returned("assign", e, w, r.rc, r.task_number, r.task_id,
                                       tasks, released[e])
                              EXCEPT !.leak = s.leak, !.refused = s.refused,
                                     !.email_sent = sent,
                                     !.result = AssignResult(r.rc, r.task_number),
                                     !.inserted = s.view \ s.store]
    /\ released' = [released EXCEPT ![e] = 0]
    /\ ops' = ops + 1
    /\ UNCHANGED <<today, pc, loc, cad, accounts>>

\* a call whose first write finds the table locked: sqlite3.OperationalError
\* leaves the call, nothing is written
Locked(op, e, task_number, task_id) ==
    /\ locked
    /\ ret' = Returned(op, e, 0, "raised", task_number, task_id, tasks, 0)
    /\ UNCHANGED <<tasks, nextId>>

\* the UPDATE of submit_task: WHERE id = ? AND user_email = ?
Submit(store, e, task_id, submission_content, now) ==
    {IF r.id = task_id /\ r.user_email = e
     THEN [r EXCEPT !.status = "completed", !.submitted_date = Strftime(now),
                    !.submission_content = submission_content]
     ELSE r : r \in store}

\* TaskManager.submit_task(e, task_id, submission_content)
SubmitTask(e, task_id, submission_content, tod) ==
    LET hit == {r \in tasks : r.id = task_id /\ r.user_email = e} IN
    /\ ops < MaxOps
    /\ \/ Locked("submit", e, 0, task_id) /\ released' = released
       \/ /\ ~locked
          /\ hit # {}          \* cursor.rowcount > 0
          /\ \E sent \in SendEmail("success") :
               /\ tasks' = Committed(tasks, Submit(tasks, e, task_id, submission_content,
                                                   Now(tod)), sent)
               /\ ret' = [Returned("submit", e, 0, "success",
                                   (CHOOSE r \in hit : TRUE).task_number, task_id, tasks, 0)
                          EXCEPT !.email_sent = sent]
          /\ released' = [released EXCEPT ![e] =
                             IF \E r \in hit : r.status = "pending"
                             THEN (CHOOSE r \in hit : TRUE).task_number ELSE 0]
          /\ nextId' = nextId
       \/ /\ ~locked
          /\ hit = {}
          /\ ret' = Returned("submit", e, 0, "failure", 0, task_id, tasks, 0)
          /\ UNCHANGED <<tasks, nextId, released>>
    /\ ops' = ops + 1
    /\ UNCHANGED <<today, locked, pc, loc, cad, accounts>>

\* os.path.join("uploads", user_email, f"task_{task_number}", filename)
DestPath(e, task_number, filename) == <<"uploads", e, task_number, filename>>

\* the UPDATE of save_task_file: WHERE user_email = ? AND task_number = ?
SaveFile(store, e, task_number, dest_path) ==
    {IF r.user_email = e /\ r.task_number = task_number
     THEN [r EXCEPT !.submission_content = dest_path]
     ELSE r : r \in store}

\* TaskManager.get_task_file(e, task_number): every value the call can return
\* (the submission_content of the row fetchone() yields; None, here
\* NoContent, when there is no row or the column is empty)
GetTaskFile(store, e, task_number) ==
    {IF row = {} THEN NoContent ELSE (CHOOSE r \in row : TRUE).submission_content
     : row \in FetchOne(RowsAt(store, e, task_number))}

\* TaskManager.save_task_file(e, task_number, file_path)
SaveTaskFile(e, task_number, filename) ==
    /\ ops < MaxOps
    /\ \/ Locked("save", e, task_number, 0)
       \/ /\ ~locked
          /\ tasks' = SaveFile(tasks, e, task_number, DestPath(e, task_number, filename))
          /\ ret' = Returned("save", e, 0, "saved", task_number, 0, tasks, 0)
          /\ nextId' = nextId
    /\ ops' = ops + 1
    /\ UNCHANGED <<today, released, locked, pc, loc, cad, accounts>>

\* the check of the front end's assigner on the learner's highest-numbered row
LegacyDecide(result) ==
    IF result = {} THEN [rc |-> "go", task_number |-> 1, previous_task |-> NoText]
    ELSE LET r == CHOOSE x \in result : TRUE IN
         IF r.task_number = 1 /\ r.status # "completed"
         THEN [rc |-> "prior_incomplete", task_number |-> 1, previous_task |-> NoText]
         ELSE IF r.task_number = 2 /\ r.status # "completed"
         THEN [rc |-> "prior_incomplete", task_number |-> 2, previous_task |-> NoText]
         ELSE IF r.task_number >= 2
         THEN [rc |-> "journey_complete", task_number |-> r.task_number, previous_task |-> NoText]
         ELSE [rc |-> "go", task_number |-> r.task_number + 1,
               previous_task |-> r.task_description]

\* node_funcs.TaskManager.assign_task(user_name, e, level, roadmap): the front
\* end's assigner, which inserts one 'pending' row per call, two at most
LegacyAssignTask(e, ok, tod) ==
    /\ ops < MaxOps
    /\ \E result \in FetchOne(LastRows(tasks, e)) :
         LET d == LegacyDecide(result) IN
         IF d.rc # "go"
         THEN /\ ret' = Returned("legacy", e, 0, d.rc, d.task_number, 0, tasks, 0)
              /\ UNCHANGED <<tasks, nextId>>
         ELSE IF ~ok \/ locked  \* generate_task or the INSERT raises
         THEN /\ ret' = Returned("legacy", e, 0, "raised", d.task_number, 0, tasks, 0)
              /\ UNCHANGED <<tasks, nextId>>
         ELSE /\ nextId <= MaxId
              /\ tasks' = tasks \cup
                   {NewRow(nextId, e, d.task_number,
                           GenerateTask(d.task_number, d.previous_task),
                           Strftime(Now(tod)), Strftime(AddDays(Now(tod), DueDays)),
                           "pending")}
              /\ nextId' = nextId + 1
              /\ ret' = Returned("legacy", e, 0, "assigned", d.task_number, nextId, tasks, 0)
    /\ released' = [released EXCEPT ![e] = 0]
    /\ ops' = ops + 1
    /\ UNCHANGED <<today, locked, pc, loc, cad, accounts>>

\* a request on accounts returns
Answered(op, e, rc, id, user) ==
    [Returned(op, e, 0, rc, 0, id, tasks, 0)
     EXCEPT !.requester = user, !.auth = auth_users, !.quiz = users]

\* POST /auth/register {name, email, password, role} with the given token.
\* The INSERT of an e-mail address that is taken raises IntegrityError (400);
\* a locked database leaves the call with OperationalError.
Register(name, email, role, token) ==
    LET requester == CurrentUser(auth_users, token)
        desired_role == DesiredRole(requester, role, auth_users)
    IN
    /\ ops < MaxOps
    /\ IF \E a \in auth_users : a.email = email
       THEN /\ ret' = [Answered("register", email, "email_taken", 0, requester)
                       EXCEPT !.asked = role]
            /\ UNCHANGED accounts
       ELSE IF locked
       THEN /\ ret' = [Answered("register", email, "raised", 0, requester)
                       EXCEPT !.asked = role]
            /\ UNCHANGED accounts
       ELSE /\ auth_users' = auth_users \cup
                   {[id |-> sqlite_sequence.auth_users, name |-> name,
                     email |-> email, role |-> desired_role]}
            /\ sqlite_sequence' = [sqlite_sequence EXCEPT !.auth_users = @ + 1]
            /\ users' = users
            /\ ret' = [Answered("register", email, "registered",
                                sqlite_sequence.auth_users, requester)
                       EXCEPT !.asked = role]
    /\ ops' = ops + 1
    /\ UNCHANGED <<tasks, nextId, today, released, locked, pc, loc, cad>>

\* QuizApp.store_result, the last step of a quiz: INSERT INTO users (name,
\* score, level, roadmap). by: the learner who took the quiz (kept for the
\* record only, the table has no such column).
StoreResult(name, by) ==
    /\ ops < MaxOps
    /\ IF locked
       THEN /\ ret' = Answered("store_result", by, "raised", 0, NoUser)
            /\ UNCHANGED accounts
       ELSE /\ users' = users \cup {[id |-> sqlite_sequence.users, name |-> name, by |-> by]}
            /\ sqlite_sequence' = [sqlite_sequence EXCEPT !.users = @ + 1]
            /\ auth_users' = auth_users
            /\ ret' = Answered("store_result", by, "stored", sqlite_sequence.users, NoUser)
    /\ ops' = ops + 1
    /\ UNCHANGED <<tasks, nextId, today, released, locked, pc, loc, cad>>

\* DELETE /admin/users/{user_email} with the given token: the checks, then
\* the DELETEs on tasks (by e-mail), users (by name), user_progress (never
\* written, so always empty) and auth_users, committed together. Every
\* refusal, and a locked database, leaves the tables as they were (the
\* refusals raised inside the try block reach the client as status 500).
AdminDeleteUser(token, user_email) ==
    LET user == CurrentUser(auth_users, token)
        check == DeleteCheck(user, user_email, auth_users)
        gone == {a \in auth_users : a.email = user_email}
    IN
    /\ ops < MaxOps
    /\ IF check # "go"
       THEN /\ ret' = Answered("delete", user_email, check, 0, user)
            /\ UNCHANGED <<tasks, released, accounts>>
       ELSE IF locked
       THEN /\ ret' = Answered("delete", user_email, "raised", 0, user)
            /\ UNCHANGED <<tasks, released, accounts>>
       ELSE /\ tasks' = tasks \ RowsOf(tasks, user_email)
            /\ users' = {u \in users : \A a \in gone : u.name # a.name}
            /\ auth_users' = auth_users \ gone
            /\ sqlite_sequence' = sqlite_sequence
            /\ released' = [e \in Learners |-> IF e = user_email THEN 0 ELSE released[e]]
            /\ ret' = Answered("delete", user_email, "deleted",
                               (CHOOSE a \in gone : TRUE).id, user)
    /\ ops' = ops + 1
    /\ UNCHANGED <<nextId, today, locked, pc, loc, cad>>

\* the server starts again: seed_admin runs once more
Startup ==
    LET seeded == SeedAdmin(auth_users, sqlite_sequence) IN
    /\ auth_users' = seeded.auth
    /\ sqlite_sequence' = seeded.seq
    /\ UNCHANGED <<tasks, nextId, today, ret, released, locked, ops, pc, loc, cad, users>>

\* the garbage collector frees the abandoned connection: its transaction is
\* rolled back and the lock released
CollectGarbage ==
    /\ locked
    /\ locked' = FALSE
    /\ UNCHANGED <<tasks, nextId, today, ret, released, ops, pc, loc, cad, accounts>>

\* midnight passes
Tick ==
    /\ today < MaxDay
    /\ today' = today + 1
    /\ UNCHANGED <<tasks, nextId, ret, released, locked, ops, pc, loc, cad, accounts>>

\* the ids a caller passes: those of the rows in the table, and one that names no row
IdsToTry == {r.id : r \in tasks} \cup {nextId}

\* the task numbers a caller passes: those the learner has, and one it has not
NumbersToTry(e) == NumbersOf(tasks, e) \cup {Cardinality(NumbersOf(tasks, e)) + 1}

Next ==
    \/ \E e \in Learners, w \in Weeks, answers \in ProviderRuns, tod \in TimesOfDay :
          AssignTask(e, w, answers, tod)
    \/ \E e \in Learners, id \in IdsToTry, c \in Texts, tod \in TimesOfDay : SubmitTask(e, id, c, tod)
    \/ \E e \in Learners, f \in Files : \E tn \in NumbersToTry(e) : SaveTaskFile(e, tn, f)
    \/ \E e \in Learners, ok \in BOOLEAN, tod \in TimesOfDay : LegacyAssignTask(e, ok, tod)
    \/ \E token \in Tokens, e \in Learners : AdminDeleteUser(token, e)
    \/ CollectGarbage
    \/ Tick

Spec == InitLearners /\ [][Next]_vars

\* ------------------------------------------------- concurrent requests
\* The API server runs each request on a thread of its pool, so two
\* assign_task calls can be in flight at once. A thread's position is the
\* query it runs next; each query sees what is committed at that moment.

NoFailure == [leak |-> FALSE, refused |-> FALSE, view |-> {}, store |-> {}]

\* the call of thread p returns (or raises)
ReturnWith(p, rc, task_number, task_id, failed, sent) ==
    /\ ret' = [Returned("assign", loc[p].email, loc[p].weeks, rc, task_number, task_id,
                        loc[p].pre, loc[p].after)
               EXCEPT !.leak = failed.leak, !.refused = failed.refused,
                      !.email_sent = sent,
                      !.result = AssignResult(rc, task_number),
                      !.inserted = failed.view \ failed.store]
    /\ pc' = [pc EXCEPT ![p] = "idle"]
    /\ loc' = [loc EXCEPT ![p] = NoLocals]

Return(p, rc, task_number, task_id) ==
    ReturnWith(p, rc, task_number, task_id, NoFailure, FALSE)

\* SELECT COUNT(*) FROM tasks WHERE user_email = ?
AssignCount(p, e, w) ==
    /\ ops < MaxOps
    /\ pc[p] = "idle"
    /\ loc' = [loc EXCEPT ![p] = [email |-> e, weeks |-> w,
                                  task_count |-> Cardinality(RowsOf(tasks, e)),
                                  task_number |-> 0, pre |-> tasks, after |-> released[e]]]
    /\ pc' = [pc EXCEPT ![p] = "counted"]
    /\ released' = [released EXCEPT ![e] = 0]
    /\ ops' = ops + 1
    /\ UNCHANGED <<tasks, nextId, today, ret, locked, cad, accounts>>

\* create_learning_schedule, or the backfill; once the backfill has inserted
\* a row the call holds the write lock, and it runs on to its return before
\* any other connection can write
AssignSchedule(p, answers, tod) ==
    /\ pc[p] = "counted"
    /\ \E s \in ScheduleStep(tasks, nextId, loc[p].email, loc[p].weeks, loc[p].task_count,
                             Now(tod), answers, locked) :
         /\ s.nid <= MaxId + 1
         /\ nextId' = s.nid
         /\ IF s.rc # "go"
            THEN /\ ReturnWith(p, s.rc, 0, 0, s, FALSE)
                 /\ locked' = (locked \/ s.leak)
                 /\ tasks' = tasks
            ELSE IF s.view # s.store
            THEN \E r \in FinishStep(s.store, s.view, loc[p].email, loc[p].weeks,
                                     Now(tod), FALSE) :
                     /\ locked' = (r.rc # "assigned")
                     /\ \E sent \in SendEmail(r.rc) :
                          /\ tasks' = Committed(tasks, r.store, sent)
                          /\ ReturnWith(p, r.rc, r.task_number, r.task_id, s, sent)
            ELSE /\ tasks' = s.store
                 /\ pc' = [pc EXCEPT ![p] = "scheduled"]
                 /\ UNCHANGED <<ret, loc, locked>>
    /\ UNCHANGED <<today, released, ops, cad, accounts>>

\* SELECT ... ORDER BY task_number DESC LIMIT 1 and the checks on its row
AssignDecide(p) ==
    /\ pc[p] = "scheduled"
    /\ \E result \in FetchOne(LastRows(tasks, loc[p].email)) :
         LET d == Decide(result, loc[p].weeks) IN
         IF d.rc # "go"
         THEN Return(p, d.rc, d.task_number, 0)
         ELSE /\ loc' = [loc EXCEPT ![p].task_number = d.task_number]
              /\ pc' = [pc EXCEPT ![p] = "decided"]
              /\ ret' = ret
    /\ UNCHANGED <<tasks, nextId, today, released, locked, ops, cad, accounts>>

\* SELECT task_description, due_date ... WHERE user_email = ? AND task_number = ?
AssignFetch(p) ==
    /\ pc[p] = "decided"
    /\ IF RowsAt(tasks, loc[p].email, loc[p].task_number) = {}
       THEN Return(p, "not_found", loc[p].task_number, 0)
       ELSE /\ pc' = [pc EXCEPT ![p] = "fetched"]
            /\ UNCHANGED <<ret, loc>>
    /\ UNCHANGED <<tasks, nextId, today, released, locked, ops, cad, accounts>>

\* the UPDATE that releases the task, SELECT id, conn.commit(), send_email
AssignRelease(p, tod) ==
    /\ pc[p] = "fetched"
    /\ \E r \in ReleaseStep(tasks, tasks, loc[p].email, loc[p].task_number, Now(tod), locked) :
         \E sent \in SendEmail(r.rc) :
              /\ tasks' = Committed(tasks, r.store, sent)
              /\ ReturnWith(p, r.rc, r.task_number, r.task_id, NoFailure, sent)
    /\ UNCHANGED <<nextId, today, released, locked, ops, cad, accounts>>

NextConc ==
    \/ \E p \in Procs, e \in Learners, w \in Weeks : AssignCount(p, e, w)
    \/ \E p \in Procs, answers \in ProviderRuns, tod \in TimesOfDay : AssignSchedule(p, answers, tod)
    \/ \E p \in Procs : AssignDecide(p)
    \/ \E p \in Procs : AssignFetch(p)
    \/ \E p \in Procs, tod \in TimesOfDay : AssignRelease(p, tod)
    \/ \E e \in Learners, id \in IdsToTry, c \in Texts, tod \in TimesOfDay : SubmitTask(e, id, c, tod)
    \/ \E token \in AdminTokens, e \in Learners : AdminDeleteUser(token, e)
    \/ CollectGarbage

SpecConc == InitLearners /\ [][NextConc]_vars

\* ------------------------------------------------- requests to the API
\* faulty variant: the field declared without its range
ValidDurationAny(w) == TRUE

\* AssignTaskRequest: duration_weeks is declared Field(ge=1, le=52); a request
\* outside the range is answered 422 before the endpoint's function runs
ValidDuration(w) == w >= MinDuration /\ w <= MaxDuration

\* POST /tasks/assign {user_name, user_email: e, duration_weeks: w}. The
\* endpoint reads the latest quiz result stored under user_name (404 if
\* none) and calls QuizApp.assign_task_to_user with five arguments; the
\* method takes four, so the call raises TypeError before TaskManager is
\* reached.
ApiAssignTask(user_name, e, w) ==
    /\ ops < MaxOps
    /\ ret' = Returned("api_assign", e, w,
                       IF ~ValidDuration(w) THEN "validation"
                       ELSE IF ~(\E u \in users : u.name = user_name) THEN "no_quiz"
                       ELSE "raised",
                       0, 0, tasks, 0)
    /\ ops' = ops + 1
    /\ UNCHANGED <<tasks, nextId, today, released, locked, pc, loc, cad, accounts>>

\* the requests the API server and the front end accept
NextApi ==
    \/ \E name \in Names, e \in Learners, w \in Durations : ApiAssignTask(name, e, w)
    \/ \E name \in Names, by \in Learners : StoreResult(name, by)
    \/ \E e \in Learners, ok \in BOOLEAN, tod \in TimesOfDay : LegacyAssignTask(e, ok, tod)
    \/ \E e \in Learners, id \in IdsToTry, c \in Texts, tod \in TimesOfDay : SubmitTask(e, id, c, tod)
    \/ \E e \in Learners, f \in Files : \E tn \in NumbersToTry(e) : SaveTaskFile(e, tn, f)
    \/ Tick

SpecApi == Init /\ [][NextApi]_vars

\* --------------------------------------------------- account requests
\* the requests on accounts, with the quiz and the front end's assigner
\* filling the tables the deletion empties
NextAuth ==
    \/ \E name \in Names, email \in Learners, role \in Roles :
          \E token \in Tokens : Register(name, email, role, token)
    \/ \E token \in Tokens, email \in Emails : AdminDeleteUser(token, email)
    \/ \E name \in Names, by \in Learners : StoreResult(name, by)
    \/ \E e \in Learners, tod \in TimesOfDay : LegacyAssignTask(e, TRUE, tod)
    \/ Startup

SpecAuth == Init /\ [][NextAuth]_vars

\* ------------------------------------------- the date sequencer alone
\* The schedule of one learner is created from scratch on some start day for
\* 2w tasks; then the backfill of assign_task is run as for a learner who has
\* only the first n of those rows.
InitCadence ==
    /\ InitAccounts
    /\ tasks = {}
    /\ nextId = 1
    /\ today \in 0..MaxStart
    /\ ret = NoCall
    /\ released = [e \in Learners |-> 0]
    /\ locked = FALSE
    /\ ops = 0
    /\ pc = [p \in Procs |-> "idle"]
    /\ loc = [p \in Procs |-> NoLocals]
    /\ \E w \in Weeks, n \in 1..(2 * MaxWeeks) :
         /\ n < 2 * w
         /\ cad = [phase |-> "start", start |-> today, weeks |-> w, n |-> n,
                   scratch |-> {}, continued |-> {}]

\* create_learning_schedule for 2w tasks, started now
CadenceCreate(e, tod) ==
    /\ cad.phase = "start"
    /\ cad' = [cad EXCEPT !.phase = "created",
                          !.scratch = CreateLearningSchedule({}, 1, e, 2 * cad.weeks,
                                                             Now(tod), Always).store]
    /\ UNCHANGED <<tasks, nextId, today, ret, released, locked, ops, pc, loc, accounts>>

\* the backfill of assign_task for 2w tasks, continuing after row n
CadenceBackfill ==
    /\ cad.phase = "created"
    /\ \E last_row \in {r \in cad.scratch : r.task_number = cad.n} :
         cad' = [cad EXCEPT !.phase = "continued",
                            !.continued = Backfill(cad.n + 1, last_row.user_email,
                                                   2 * cad.weeks, last_row, last_row)]
    /\ UNCHANGED <<tasks, nextId, today, ret, released, locked, ops, pc, loc, accounts>>

NextCadence ==
    \/ \E e \in Learners, tod \in TimesOfDay : CadenceCreate(e, tod)
    \/ CadenceBackfill

SpecCadence == InitCadence /\ [][NextCadence]_vars

\* ================================================================ claims
\* what the latest call found in the table before it ran
PreRows    == RowsOf(ret.pre, ret.email)
PreCount   == Cardinality(PreRows)
NowRows    == RowsOf(tasks, ret.email)
TotalTasks == ret.weeks * 2
FirstAssign == ret.op = "assign" /\ PreRows = {} /\ ret.weeks >= 1

\* C1: the first assign_task call of a learner with no rows succeeds, returns
\* task number 1, and leaves row 1 'pending' and every other row 'scheduled'.
\* (Stated for the calls whose schedule was created, so that what refutes it
\* is the release itself and not a failing content provider.)
C1_FirstAssignReleasesTaskOne ==
    (FirstAssign /\ ret.rc # "schedule_failed") =>
        /\ ret.rc = "assigned"
        /\ ret.task_number = 1
        /\ RowsAt(tasks, ret.email, 1) # {}
        /\ \A r \in NowRows :
             r.status = IF r.task_number = 1 THEN "pending" ELSE "scheduled"

\* C2: the first assign_task call of a learner with no rows leaves exactly 2w
\* rows for that learner, numbered 1..2w, each number once.
C2_FirstAssignMaterializesAll ==
    FirstAssign =>
        /\ Cardinality(NowRows) = TotalTasks
        /\ NumbersOf(tasks, ret.email) = 1..TotalTasks

\* C2, for the calls in which the content provider answered: the 2w rows are
\* there, numbered 1..2w, each once.
C2_WhenGenerated ==
    (FirstAssign /\ ret.rc # "schedule_failed") =>
        /\ Cardinality(NowRows) = TotalTasks
        /\ NumbersOf(tasks, ret.email) = 1..TotalTasks

C2_Reached ==
    FirstAssign /\ ret.weeks = 2 /\ Cardinality(NowRows) = 4

\* C3: once submit_task has succeeded on the learner's pending task k, with
\* k < 2w, the next assign_task call succeeds, returns k + 1 and leaves row
\* k + 1 'pending'. (Stated for the calls that returned.)
C3_AssignAfterSubmitAdvances ==
    (ret.op = "assign" /\ ret.after > 0 /\ ret.after < TotalTasks /\ ret.rc # "raised") =>
        /\ ret.rc = "assigned"
        /\ ret.task_number = ret.after + 1
        /\ \E r \in RowsAt(tasks, ret.email, ret.after + 1) : r.status = "pending"

\* C3, its first half: the row submit_task succeeded on is 'completed'.
C3_SubmittedIsCompleted ==
    (ret.op = "submit" /\ ret.rc = "success") =>
        \A r \in tasks : (r.id = ret.task_id /\ r.user_email = ret.email) => r.status = "completed"

\* the learner had a released task that was not completed
PreHadPending == \E r \in PreRows : r.status = "pending"

\* C4: assign_task for a learner whose released task is not completed returns
\* the prior-task-incomplete error and leaves the committed table as it was,
\* also when the call attempts a backfill.
C4_IncompleteRejectedStoreUntouched ==
    (ret.op = "assign" /\ PreHadPending) =>
        /\ ret.rc = "prior_incomplete"
        /\ tasks = ret.pre

\* C4, for the calls in which the content provider answered.
C4_WhenGenerated ==
    (ret.op = "assign" /\ PreHadPending /\ ret.rc # "raised") =>
        /\ ret.rc = "prior_incomplete"
        /\ tasks = ret.pre

\* C4, its second half in every case: the table is as it was.
C4_StoreUntouched ==
    (ret.op = "assign" /\ PreHadPending) => tasks = ret.pre

C4_Reached ==
    /\ ret.op = "assign" /\ PreHadPending /\ ret.rc = "prior_incomplete"
    /\ PreCount < TotalTasks            \* a backfill was attempted

\* the learner's highest-numbered row was number 2w and 'completed'
PreJourneyDone ==
    /\ LastRows(ret.pre, ret.email) # {}
    /\ \A r \in LastRows(ret.pre, ret.email) :
         r.task_number = TotalTasks /\ r.status = "completed"

\* C5: when the learner's highest-numbered row is number 2w and 'completed',
\* assign_task with duration_weeks = w reports journey complete and no row
\* numbered above 2w exists afterwards.
C5_JourneyComplete ==
    (ret.op = "assign" /\ PreJourneyDone) =>
        /\ ret.rc = "journey_complete"
        /\ \A r \in NowRows : r.task_number <= TotalTasks

C5_Reached ==
    ret.op = "assign" /\ PreJourneyDone /\ ret.rc = "journey_complete"

\* C6: every row has due_date = assigned_date + 3 days, also after
\* assign_task has released it and stamped assigned_date with today.
C6_DueIsAssignedPlusThree ==
    \A r \in tasks : r.due_date = r.assigned_date + DueDays

\* C7: for a learner with N rows, 0 < N < 2w, after assign_task returns the
\* table holds exactly rows 1..2w of that learner, the rows N+1..2w added
\* as 'scheduled'.
C7_BackfillPersists ==
    (ret.op = "assign" /\ PreCount > 0 /\ PreCount < TotalTasks
        /\ NumbersOf(ret.pre, ret.email) = 1..PreCount /\ ret.rc # "raised") =>
        /\ NumbersOf(tasks, ret.email) = 1..TotalTasks
        /\ Cardinality(NowRows) = TotalTasks
        /\ \A r \in NowRows : r.task_number > PreCount => r.status = "scheduled"

\* C9: a learner has at most one 'pending' row; when a row is pending, every
\* row of the learner with a smaller number is 'completed' and every row with
\* a larger number is 'scheduled'.
C9_OnePendingInOrder ==
    \A e \in Learners : \A r \in RowsOf(tasks, e) :
        r.status = "pending" =>
            \A q \in RowsOf(tasks, e) :
                /\ (q.status = "pending" => q = r)
                /\ (q.task_number < r.task_number => q.status = "completed")
                /\ (q.task_number > r.task_number => q.status = "scheduled")

C9_Reached ==
    \E e \in Learners : \E r, q \in RowsOf(tasks, e) :
        r.status = "pending" /\ q.task_number < r.task_number /\ q.status = "completed"

\* C10: two assign_task calls for one learner that both read a row count of
\* 0 never leave two rows with the same (user_email, task_number).
C10_NoDuplicateNumbers ==
    \A r, q \in tasks :
        (r.user_email = q.user_email /\ r.task_number = q.task_number) => r = q

\* C8: the assigned dates the backfill computes for rows N+1..2w, continuing
\* from row N's stored date, are the dates create_learning_schedule gave
\* those positions from scratch.
C8_CadenceContinuity ==
    cad.phase = "continued" =>
        /\ {r.task_number : r \in cad.continued} = (cad.n + 1)..(2 * cad.weeks)
        /\ \A r \in cad.continued : \E q \in cad.scratch :
             /\ q.task_number = r.task_number
             /\ q.assigned_date = r.assigned_date

C8_Reached ==
    /\ cad.phase = "continued"
    /\ cad.n = 1 /\ cad.weeks = 2 /\ cad.start % WeekLen = 2
    /\ Cardinality(cad.continued) = 3

\* C11: a learner's task numbers are the contiguous range 1..N, and N is at
\* most total_tasks = 2 * duration_weeks of the learner's most recent
\* assign_task call, also when that call passed a smaller duration_weeks
\* than an earlier one.
C11_ContiguousWithinTarget ==
    ret.op = "assign" =>
        LET numbers == NumbersOf(tasks, ret.email) IN
        /\ numbers = 1..Cardinality(numbers)
        /\ Cardinality(numbers) <= TotalTasks

\* C11, its first half: the numbers of every learner are 1..N without gaps.
C11_Contiguous ==
    \A e \in Learners : NumbersOf(tasks, e) = 1..Cardinality(NumbersOf(tasks, e))

\* C12: when create_learning_schedule fails after it has inserted rows,
\* assign_task reports the scheduling failure and none of those rows is in
\* the table: the learner's rows are what they were before the call.
C12_FailedScheduleLeavesNoRows ==
    (FirstAssign /\ ret.leak) =>
        /\ ret.rc = "schedule_failed"
        /\ NowRows = PreRows
        /\ tasks = ret.pre

C12_Reached ==
    FirstAssign /\ ret.leak /\ ret.rc = "schedule_failed" /\ ret.weeks = 2 /\ locked

\* the row the latest submit_task call named, as it was before the call
PreHit == {r \in ret.pre : r.id = ret.task_id /\ r.user_email = ret.email}

\* C13: submit_task for an id that names no row, or a row of another learner,
\* returns the failure outcome in both cases and changes no row.
C13_MissFailsAlike ==
    (ret.op = "submit" /\ PreHit = {}) =>
        /\ ret.rc = "failure"
        /\ tasks = ret.pre

\* C13, what holds of it in every state: such a call never succeeds and
\* changes no row, and a call that succeeds changes only the row it named.
C13_NoForeignChange ==
    ret.op = "submit" =>
        /\ PreHit = {} => (ret.rc # "success" /\ tasks = ret.pre)
        /\ \A r \in ret.pre : (r \notin tasks) => r \in PreHit
        /\ \A q \in tasks : (q \notin ret.pre) =>
             (q.id = ret.task_id /\ q.user_email = ret.email)

\* C14: submit_task on a row that is already 'completed' returns the failure
\* outcome and leaves the row's submitted_date and submission_content as they
\* were. (Stated for the calls that returned.)
C14_ResubmitRejected ==
    (ret.op = "submit" /\ ret.rc # "raised" /\ \E r \in PreHit : r.status = "completed") =>
        /\ ret.rc = "failure"
        /\ \A r \in PreHit : r \in tasks

\* C15: the status of a row changes only scheduled -> pending -> completed.
C15_Lifecycle ==
    [][\A r \in tasks : \A q \in tasks' :
          q.id = r.id =>
              \/ q.status = r.status
              \/ r.status = "scheduled" /\ q.status = "pending"
              \/ r.status = "pending" /\ q.status = "completed"]_vars

\* C15, its second half: a 'completed' row never changes status again.
C15_CompletedIsTerminal ==
    [][\A r \in tasks : \A q \in tasks' :
          (q.id = r.id /\ r.status = "completed") => q.status = "completed"]_vars

\* C16: a row has a submitted_date or a submission_content only if its status
\* is 'completed'.
C16_SubmissionOnlyWhenCompleted ==
    \A r \in tasks :
        (r.submitted_date # NoDate \/ r.submission_content # NoContent) =>
            r.status = "completed"

\* C17: when send_email returns False, the change the call made is in the
\* table all the same: the row assign_task released is 'pending' and the call
\* returned it as assigned, the row submit_task completed is 'completed'.
C17_EmailFailureKeepsTransition ==
    /\ (ret.op = "assign" /\ ret.rc = "assigned" /\ ~ret.email_sent) =>
          \E r \in tasks : /\ r.id = ret.task_id /\ r.user_email = ret.email
                           /\ r.task_number = ret.task_number /\ r.status = "pending"
    /\ (ret.op = "submit" /\ ret.rc = "success" /\ ~ret.email_sent) =>
          \E r \in tasks : /\ r.id = ret.task_id /\ r.user_email = ret.email
                           /\ r.status = "completed"

C17_Reached ==
    /\ ret.op = "assign" /\ ret.rc = "assigned" /\ ~ret.email_sent
    /\ \E r \in tasks : r.id = ret.task_id /\ r.status = "pending"

C17_SubmitReached ==
    ret.op = "submit" /\ ret.rc = "success" /\ ~ret.email_sent

\* the row of the from-scratch schedule at position tn
ScratchAt(tn) == {r \in cad.scratch : r.task_number = tn}

\* C18: create_learning_schedule puts every odd-numbered task on a Monday and
\* the even-numbered task after it on the Thursday 3 days later; task 1 is on
\* the first Monday on or after the start date (the start date itself when
\* that is a Monday), and every later odd-numbered task 7 days after the
\* odd-numbered task before it.
C18_MondayThursday ==
    cad.phase \in {"created", "continued"} =>
        /\ {r.task_number : r \in cad.scratch} = 1..(2 * cad.weeks)
        /\ \A r \in cad.scratch :
             IF r.task_number % 2 = 1
             THEN /\ r.assigned_date % WeekLen = 0
                  /\ r.task_number = 1 =>
                        /\ r.assigned_date >= cad.start
                        /\ r.assigned_date < cad.start + WeekLen
                  /\ r.task_number > 1 =>
                        \A q \in ScratchAt(r.task_number - 2) :
                            r.assigned_date = q.assigned_date + WeekLen
             ELSE /\ r.assigned_date % WeekLen = MonThu
                  /\ \A q \in ScratchAt(r.task_number - 1) :
                        r.assigned_date = q.assigned_date + MonThu

C18_Reached ==
    /\ cad.phase = "created" /\ cad.weeks = 2 /\ cad.start % WeekLen = 0
    /\ \E r \in ScratchAt(1) : r.assigned_date = cad.start
    /\ \E r \in ScratchAt(4) : r.assigned_date = cad.start + WeekLen + MonThu

\* C19: when generate_task cannot obtain a text from the service, the
\* schedule is created, or backfilled, all the same, and assign_task neither
\* returns an error nor raises because of it.
C19_ProviderFailureTolerated ==
    (ret.op = "assign" /\ ret.refused) =>
        /\ ret.rc \notin {"schedule_failed", "raised"}
        /\ NumbersOf(tasks, ret.email) = 1..TotalTasks

\* C20: a /tasks/assign request whose duration_weeks is outside 1..52 is
\* answered with the validation outcome, and no row is inserted or updated.
C20_BadDurationRejected ==
    (ret.op = "api_assign" /\ (ret.weeks < MinDuration \/ ret.weeks > MaxDuration)) =>
        /\ ret.rc = "validation"
        /\ tasks = ret.pre

C20_Reached ==
    /\ ret.op = "api_assign" /\ ret.weeks = MaxDuration + 1 /\ ret.rc = "validation"
    /\ tasks # {}


\* ------------------------------------------------------------------ C21
FailureKinds == {"schedule_failed", "prior_incomplete", "journey_complete", "not_found"}

\* C21: the value assign_task hands back for a scheduling failure, for an
\* incomplete prior task and for a finished journey is a failure value that
\* the call hands back for no other kind of failure ("task not found in
\* schedule" included), whatever task number that other failure names.
C21_FailuresDistinguishable ==
    (ret.op = "assign"
        /\ ret.rc \in {"schedule_failed", "prior_incomplete", "journey_complete"})
    => /\ ret.result.error
       /\ \A k \in FailureKinds \ {ret.rc} : \A n \in 0..(2 * MaxWeeks + 1) :
            AssignResult(k, n) # ret.result

\* a call was told the journey is complete
C21_Reached ==
    /\ ret.op = "assign"
    /\ ret.rc = "journey_complete"
    /\ ret.result.error

\* a call was told the prior task is incomplete
C21_IncompleteReached ==
    /\ ret.op = "assign"
    /\ ret.rc = "prior_incomplete"
    /\ ret.result.error


\* ------------------------------------------------------------------ C22
\* the learner's rows that were not 'completed' before the call
PreOpen == {r \in PreRows : r.status # "completed"}
PreLowestOpen == {r \in PreOpen : \A q \in PreOpen : r.task_number <= q.task_number}

\* C22: for a learner whose whole schedule is stored and who has a row that
\* is not 'completed', an assign_task call that returns releases the
\* lowest-numbered such row: it returns that number and leaves that row
\* 'pending' and every other row of the learner as it was, whether or not
\* higher-numbered rows are still 'scheduled'.
C22_ReleasesLowestOpen ==
    (ret.op = "assign" /\ ret.rc # "raised"
        /\ PreCount = TotalTasks /\ PreOpen # {}
        /\ NumbersOf(ret.pre, ret.email) = 1..TotalTasks)
    => \E low \in PreLowestOpen :
         /\ ret.rc = "assigned"
         /\ ret.task_number = low.task_number
         /\ \E r \in NowRows : r.id = low.id /\ r.status = "pending"
         /\ \A r \in PreRows : r.id # low.id => r \in NowRows


\* ------------------------------------------------------------------ C23
\* C23: every stored description of a task numbered 2 or more, generated
\* from the non-empty text of the task before it, contains that text (the
\* rows of create_learning_schedule and of the legacy flow are all generated
\* with the description of the previous task at hand).
C23_FollowUpQuotesPrevious ==
    \A r \in tasks :
        r.task_number >= 2 => r.task_description.quotesPrevious


\* ------------------------------------------------------------------ C24
\* C24: the backfill of assign_task leaves every row that was stored before
\* the call as it was: the rows it inserts carry new ids and numbers above
\* the highest stored number N of the learner, so that every row numbered up
\* to N is seen by the call, and is stored after it, with the same id,
\* number, description, dates, status and submission.
C24_BackfillKeepsStoredRows ==
    (ret.op = "assign" /\ ret.inserted # {}) =>
        /\ \A q \in ret.inserted :
              /\ \A r \in ret.pre : q.id # r.id
              /\ \A r \in PreRows : q.task_number > r.task_number
        /\ \A r \in PreRows : r \in tasks

\* a call backfilled the schedule of a learner who had rows
C24_Reached ==
    /\ ret.op = "assign"
    /\ PreRows # {}
    /\ ret.inserted # {}
    /\ \E r \in PreRows : r.status = "completed"


\* ------------------------------------------------------------------ C25
\* C25: a /tasks/assign request with a duration_weeks in the accepted range,
\* for a learner with a quiz result, reaches the scheduler and completes: the
\* call does not raise, and a learner who had no rows gets a schedule of
\* 2 * duration_weeks rows.
C25_DurationReachesScheduler ==
    (ret.op = "api_assign" /\ ValidDuration(ret.weeks) /\ ret.rc # "no_quiz") =>
        /\ ret.rc # "raised"
        /\ (PreRows = {} /\ ret.rc # "schedule_failed")
              => Cardinality(NowRows) = 2 * ret.weeks


\* ------------------------------------------------------------------ C26
\* every outcome assign_task(e, w) can have when called in the current state
\* with a working content provider
AssignOutcomes(e, w) ==
    UNION {UNION {IF s.rc = "go"
                  THEN FinishStep(s.store, s.view, e, w, Now(tod), locked /\ s.view = s.store)
                  ELSE {[rc |-> s.rc, store |-> s.store, task_number |-> 0, task_id |-> 0]}
                  : s \in ScheduleStep(tasks, nextId, e, w, Cardinality(RowsOf(tasks, e)),
                                       Now(tod), Always, locked)}
           : tod \in TimesOfDay}

\* C26 (progress, as the state it rules out): a learner who calls assign_task
\* and submits whatever is released is never stuck. After an assign_task
\* call of the learner that returned, with the schedule of 2w rows stored and
\* none of them 'pending' (nothing for the learner to submit), the next
\* assign_task call of the learner is not rejected: it releases a task, or it
\* reports journey complete with all 2w rows 'completed'.
C26_NeverStuck ==
    (ret.op = "assign" /\ ret.rc \notin {"raised", "schedule_failed"} /\ ~locked
        /\ NumbersOf(tasks, ret.email) = 1..TotalTasks
        /\ Cardinality(NowRows) = TotalTasks
        /\ \A r \in NowRows : r.status # "pending")
    => \E o \in AssignOutcomes(ret.email, ret.weeks) :
         \/ o.rc = "assigned"
         \/ o.rc = "journey_complete" /\ \A r \in NowRows : r.status = "completed"


\* ------------------------------------------------------------------ C27
\* the file paths save_task_file stores
StoredPaths == {DestPath(e, tn, f) : e \in Learners, tn \in 1..(2 * MaxWeeks), f \in Files}

\* C27: a submit_task on a task whose row holds the path p stored by
\* save_task_file does not replace or lose it: get_task_file for that task
\* still returns p after the submission.
C27_SubmitKeepsFilePath ==
    (ret.op = "submit" /\ ret.rc = "success") =>
        \A r \in ret.pre :
            (r.id = ret.task_id /\ r.user_email = ret.email
                /\ r.submission_content \in StoredPaths
                /\ GetTaskFile(ret.pre, r.user_email, r.task_number) = {r.submission_content})
            => GetTaskFile(tasks, r.user_email, r.task_number) = {r.submission_content}


\* ------------------------------------------------------------------ C28
\* C28: a deletion of account A by admin_delete_user removes every task row
\* stored under A's e-mail address and nothing of anyone else: every task row
\* of another address, every quiz result taken by another learner (whatever
\* name it was taken under) and every other account is kept.
C28_DeleteOnlyOwnData ==
    (ret.op = "delete" /\ ret.rc = "deleted") =>
        /\ RowsOf(tasks, ret.email) = {}
        /\ \A r \in ret.pre : r.user_email # ret.email => r \in tasks
        /\ \A u \in ret.quiz : u.by # ret.email => u \in users
        /\ \A a \in ret.auth : a.email # ret.email => a \in auth_users

\* ------------------------------------------------------------------ C29
\* C29: there is always at least one account with role 'admin', and
\* admin_delete_user refuses, changing no account, every request that names
\* the requester's own account or an account whose role is 'admin'.
C29_AdminRemains ==
    /\ AdminCount(auth_users) >= 1
    /\ (ret.op = "delete"
          /\ \E a \in ret.auth :
                a.email = ret.email /\ (a.role = "admin" \/ a = ret.requester))
       => /\ ret.rc # "deleted"
          /\ auth_users = ret.auth

\* an admin asked for the deletion of another admin account
C29_Reached ==
    /\ ret.op = "delete"
    /\ IsAdmin(ret.requester)
    /\ \E a \in ret.auth : a.email = ret.email /\ a.role = "admin" /\ a # ret.requester
    /\ AdminCount(auth_users) >= 2

\* an admin deleted an account
C29_DeletedReached ==
    /\ ret.op = "delete"
    /\ ret.rc = "deleted"
    /\ AdminCount(auth_users) >= 1

\* ------------------------------------------------------------------ C30
\* the account a register request created
Registered == {a \in auth_users : a.id = ret.task_id}

\* C30: a register request that creates an account while an admin exists,
\* made without an admin requester, creates it with role 'user' whatever
\* role it asked for; an account created with role 'admin' was asked for by
\* an admin requester, or no admin existed.
C30_RegisterRole ==
    (ret.op = "register" /\ ret.rc = "registered") =>
        /\ Registered # {}
        /\ \A a \in Registered :
              /\ (AdminCount(ret.auth) >= 1 /\ ~IsAdmin(ret.requester)) => a.role = "user"
              /\ a.role = "admin" =>
                    \/ IsAdmin(ret.requester) /\ ret.asked = "admin"
                    \/ AdminCount(ret.auth) = 0

\* the holder of a role 'user' account asked for an admin account
C30_Reached ==
    /\ ret.op = "register" /\ ret.rc = "registered"
    /\ ret.asked = "admin"
    /\ ret.requester # NoUser /\ ret.requester.role = "user"
    /\ \A a \in Registered : a.role = "user"

\* an admin created an admin account
C30_AdminReached ==
    /\ ret.op = "register" /\ ret.rc = "registered"
    /\ IsAdmin(ret.requester)
    /\ \E a \in Registered : a.role = "admin"

====
